---- MODULE Spec2Model ----
(***************************************************************************)
(* Model of the graph-transformation engine of sis_translate_workflow.py:  *)
(* walk_subgraph, compute_shape_signature, max_node_id, clone_subgraph,    *)
(* adjust_cloned_branch_for_end_thanks_and_crumbs and process_languages.   *)
(*                                                                         *)
(* A document (inner["nodes"]) is a function from node keys to node        *)
(* records.  Keys and references are the integers the numeric-looking      *)
(* string ids denote; Null (0) stands for JSON null / Python None.         *)
(* A node's "next" is either null (hasNext = FALSE) or an object with a    *)
(* list of conditions and a default.                                       *)
(***************************************************************************)
EXTENDS Integers, Sequences, FiniteSets, TLC

VARIABLES doc, pc, run, summary, graft, doc0, runs, walks, pipe

vars == <<doc, pc, run, summary, graft, doc0, runs, walks, pipe>>

Null == 0

\* ------------------------------------------------------------------ bounds
\* keys of the initial document: 1 is the language page, 2..MaxNode the
\* branch nodes
MaxNode == 4
\* number of successive process_languages runs on one document
MaxRuns == 2
\* number of successive walker and cloner calls on one document
MaxCalls == 2

\* ------------------------------------------------------------ small helpers
Range(s) == {s[i] : i \in 1..Len(s)}

SetMax(S) == IF S = {} THEN 0 ELSE CHOOSE m \in S : \A x \in S : x <= m

SetMin(S) == CHOOSE m \in S : \A x \in S : m <= x

\* node.get("next") or {} : the conditions and default a reader sees
NextConds(n) == IF n.hasNext THEN n.conds ELSE <<>>

NextDefault(n) == IF n.hasNext THEN n.dflt ELSE Null

\* --------------------------------------------------------------- GraphWalker
RECURSIVE dfs(_, _, _), dfsConds(_, _, _, _)

\* MUTANT of dfs: the default edge is followed before the conditions
dfs_DefaultFirst(d, nid, st) ==
    IF nid = Null \/ nid \in st.visited \/ nid \notin DOMAIN d THEN st
    ELSE LET st1 == [order |-> Append(st.order, nid),
                     visited |-> st.visited \cup {nid}]
             st2 == dfs(d, NextDefault(d[nid]), st1)
         IN  dfsConds(d, NextConds(d[nid]), 1, st2)

dfs(d, nid, st) ==
    IF nid = Null \/ nid \in st.visited \/ nid \notin DOMAIN d THEN st
    ELSE LET st1 == [order |-> Append(st.order, nid),
                     visited |-> st.visited \cup {nid}]
             st2 == dfsConds(d, NextConds(d[nid]), 1, st1)
         IN  dfs(d, NextDefault(d[nid]), st2)

dfsConds(d, conds, i, st) ==
    IF i > Len(conds) THEN st
    ELSE dfsConds(d, conds, i + 1, dfs(d, conds[i].result, st))

walk_subgraph(d, start_id) == dfs(d, start_id, [order |-> <<>>, visited |-> {}])

\* ------------------------------------------------------------ ShapeSignature
compute_shape_signature(d, start_id) ==
    LET order == walk_subgraph(d, start_id).order
    IN  [templ  |-> [i \in 1..Len(order) |-> d[order[i]].tid],
         branch |-> [i \in 1..Len(order) |->
                        <<Len(NextConds(d[order[i]])),
                          IF NextDefault(d[order[i]]) # Null THEN 1 ELSE 0>>]]

\* ------------------------------------------------------------ SubgraphCloner
max_node_id(d) == SetMax(DOMAIN d \cup {0})

\* old_to_new.get(r, r) as used by the second pass of clone_subgraph
Remap(m, r) == IF r \in DOMAIN m THEN m[r] ELSE r

\* MUTANT of RemapNode: only the default is rewritten, the condition results
\* keep the ids of the source nodes
RemapNode_DefaultOnly(m, n) ==
    IF n.hasNext THEN [n EXCEPT !.dflt = Remap(m, @)] ELSE n

RemapNode(m, n) ==
    IF n.hasNext
    THEN [n EXCEPT !.conds = [i \in 1..Len(n.conds) |->
                                [n.conds[i] EXCEPT !.result = Remap(m, @)]],
                   !.dflt = Remap(m, @)]
    ELSE n

\* MUTANT of clone_subgraph: the new ids start above the largest walked id
\* instead of above the largest key of the document
clone_subgraph_BaseFromWalk(d, start_id) ==
    LET order   == walk_subgraph(d, start_id).order
        base    == SetMax(Range(order))
        mapping == [o \in Range(order) |->
                       base + (CHOOSE i \in 1..Len(order) : order[i] = o)]
        newKeys == {mapping[o] : o \in Range(order)}
        inv(k)  == CHOOSE o \in Range(order) : mapping[o] = k
    IN  [err       |-> start_id \notin Range(order),
         order     |-> order,
         mapping   |-> mapping,
         new_start |-> IF start_id \in Range(order) THEN mapping[start_id] ELSE Null,
         doc       |-> [k \in DOMAIN d \cup newKeys |->
                          IF k \in newKeys
                          THEN RemapNode(mapping, [d[inv(k)] EXCEPT !.id = k])
                          ELSE d[k]]]

\* MUTANT of clone_subgraph: the second pass rewrites the source nodes too
clone_subgraph_MutatesSource(d, start_id) ==
    LET order   == walk_subgraph(d, start_id).order
        base    == max_node_id(d)
        mapping == [o \in Range(order) |->
                       base + (CHOOSE i \in 1..Len(order) : order[i] = o)]
        newKeys == {mapping[o] : o \in Range(order)}
        inv(k)  == CHOOSE o \in Range(order) : mapping[o] = k
    IN  [err       |-> start_id \notin Range(order),
         order     |-> order,
         mapping   |-> mapping,
         new_start |-> IF start_id \in Range(order) THEN mapping[start_id] ELSE Null,
         doc       |-> [k \in DOMAIN d \cup newKeys |->
                          IF k \in newKeys
                          THEN RemapNode(mapping, [d[inv(k)] EXCEPT !.id = k])
                          ELSE IF k \in Range(order) THEN RemapNode(mapping, d[k])
                          ELSE d[k]]]

\* clone_subgraph(inner, start_id): the document after the call, the mapping
\* (iterated in walk order), the new start id; err is the KeyError raised by
\* old_to_new[str(start_id)] when the start id names no node
clone_subgraph(d, start_id) ==
    LET order   == walk_subgraph(d, start_id).order
        base    == max_node_id(d)
        mapping == [o \in Range(order) |->
                       base + (CHOOSE i \in 1..Len(order) : order[i] = o)]
        newKeys == {mapping[o] : o \in Range(order)}
        inv(k)  == CHOOSE o \in Range(order) : mapping[o] = k
    IN  [err       |-> start_id \notin Range(order),
         order     |-> order,
         mapping   |-> mapping,
         new_start |-> IF start_id \in Range(order) THEN mapping[start_id] ELSE Null,
         doc       |-> [k \in DOMAIN d \cup newKeys |->
                          IF k \in newKeys
                          THEN RemapNode(mapping, [d[inv(k)] EXCEPT !.id = k])
                          ELSE d[k]]]

\* ------------------------------------------------------------- texts, labels
\* A user-visible string is its source wording plus the language it is
\* currently written in ("src" until a translation succeeds).
Text(base, lang) == [base |-> base, lang |-> lang]

NoCrumb == Text("", "src")

SOURCE_LANGUAGE_LABEL == Text("English", "src")

\* iso_from_label with the default language map: the heuristics table for the
\* known labels, the first two letters for any other label of two or more
\* characters, "" for a shorter one
iso_from_label(label) ==
    IF label.lang # "src" THEN "xx"
    ELSE CASE label.base = "English" -> "en"
           [] label.base = "French"  -> "fr"
           [] label.base = "Spanish" -> "es"
           [] label.base = "Q"       -> ""
           [] OTHER                  -> "xx"

\* the effect of one translate_node_strings call on a node of the document:
\* the node's texts are in the target language when the backend answered, as
\* they were when it failed (the texts themselves are modelled in the section
\* on translate_node_strings below)
translate_node(n, target_iso, ok) ==
    [n EXCEPT !.lang = IF ok THEN target_iso ELSE @]

\* ---------------------------------------------------------- choice page maps
find_language_page(d) ==
    LET pages == {k \in DOMAIN d : d[k].dn = "language"}
    IN  IF pages = {} THEN Null ELSE SetMin(pages)

\* build_choice_maps: the option labels in reasons order, and label -> id
ChoiceLabels(page) == [i \in 1..Len(page.reasons) |->
                          Text(page.reasons[i].title, page.lang)]

label_to_id(page) ==
    [l \in Range(ChoiceLabels(page)) |->
        page.reasons[CHOOSE i \in 1..Len(page.reasons) :
                        ChoiceLabels(page)[i] = l].id]

\* indices of the routing conditions of one choice id
CondsFor(page, rid) ==
    {i \in 1..Len(NextConds(page)) :
        NextConds(page)[i].lval = "reason_id" /\ NextConds(page)[i].rval = rid}

\* MUTANT of build_label_to_startnode: an option without a condition is never
\* given the page default
build_label_to_startnode_NoInherit(page) ==
    LET l2i == label_to_id(page)
        explicit == {l \in DOMAIN l2i : CondsFor(page, l2i[l]) # {}}
    IN  [l \in explicit |-> NextConds(page)[SetMax(CondsFor(page, l2i[l]))].result]

build_label_to_startnode(page) ==
    LET l2i == label_to_id(page)
        explicit == {l \in DOMAIN l2i : CondsFor(page, l2i[l]) # {}}
        inherit  == IF NextDefault(page) # Null THEN DOMAIN l2i \ explicit ELSE {}
    IN  [l \in explicit \cup inherit |->
            IF l \in explicit
            THEN NextConds(page)[SetMax(CondsFor(page, l2i[l]))].result
            ELSE NextDefault(page)]

_get_language_result(page, label, l2i) ==
    LET cs == CondsFor(page, l2i[label])
    IN  IF cs = {} THEN Null ELSE NextConds(page)[SetMin(cs)].result

\* -------------------------------------------- BranchGrafter: splice and adjust
\* lines 1145-1163: the cloned start's content is copied onto the existing
\* entry (its id field kept), the cloned start is deleted
\* MUTANT of Splice: the entry takes the clone's id field along with its content
Splice_KeepsCloneId(d, existing_start, new_start) ==
    [k \in DOMAIN d \ {new_start} |->
        IF k = existing_start THEN d[new_start] ELSE d[k]]

Splice(d, existing_start, new_start) ==
    [k \in DOMAIN d \ {new_start} |->
        IF k = existing_start
        THEN [d[new_start] EXCEPT !.id = d[existing_start].id]
        ELSE d[k]]

\* line 1163: the mapping with the template entry mapped to the existing entry
CorrectedMapping(mapping, existing_start, new_start) ==
    [k \in DOMAIN mapping |->
        IF mapping[k] = new_start THEN existing_start ELSE mapping[k]]

\* lines 965-976: the template's defaults, read when adjust starts
english_default_map(d, mapping) ==
    [o \in DOMAIN mapping \cap DOMAIN d |-> NextDefault(d[o])]

\* MUTANT of CorrectNode: the default is mapped through the node's own template
\* id instead of the template default
CorrectNode_MapsOwnId(d, mapping, edm, template_start_id, old_id, new_id) ==
    IF new_id \notin DOMAIN d THEN d
    ELSE IF d[new_id].tid = "thanks"
    THEN [d EXCEPT ![new_id] = [@ EXCEPT !.hasNext = FALSE, !.conds = <<>>,
                                         !.dflt = Null]]
    ELSE LET n          == d[new_id]
             en_default == IF old_id \in DOMAIN edm THEN edm[old_id] ELSE Null
             dflt1      == IF en_default # Null /\ en_default \in DOMAIN mapping
                           THEN mapping[old_id] ELSE NextDefault(n)
         IN  [d EXCEPT ![new_id] = [n EXCEPT !.hasNext = TRUE,
                                             !.conds = NextConds(n),
                                             !.dflt = dflt1]]

\* MUTANT of CorrectNode: a terminal-tagged node keeps the next it carries
CorrectNode_KeepTerminalNext(d, mapping, edm, template_start_id, old_id, new_id) ==
    IF new_id \notin DOMAIN d \/ d[new_id].tid = "thanks" THEN d
    ELSE LET n          == d[new_id]
             en_default == IF old_id \in DOMAIN edm THEN edm[old_id] ELSE Null
             dflt1      == IF en_default # Null /\ en_default \in DOMAIN mapping
                           THEN mapping[en_default] ELSE NextDefault(n)
         IN  [d EXCEPT ![new_id] = [n EXCEPT !.hasNext = TRUE,
                                             !.conds = NextConds(n),
                                             !.dflt = dflt1]]

\* lines 979-1000, one iteration of the loop over mapping.items()
CorrectNode(d, mapping, edm, template_start_id, old_id, new_id) ==
    IF new_id \notin DOMAIN d THEN d
    ELSE IF d[new_id].tid = "thanks"
    THEN [d EXCEPT ![new_id] = [@ EXCEPT !.hasNext = FALSE, !.conds = <<>>,
                                         !.dflt = Null]]
    ELSE LET n          == d[new_id]
             en_default == IF old_id \in DOMAIN edm THEN edm[old_id] ELSE Null
             dflt1      == IF en_default # Null /\ en_default \in DOMAIN mapping
                           THEN mapping[en_default] ELSE NextDefault(n)
             guardHit   == dflt1 # Null
                           /\ dflt1 \in {new_id, template_start_id}
                                         \cup (IF template_start_id \in DOMAIN mapping
                                               THEN {mapping[template_start_id]}
                                               ELSE {})
             dflt2      == IF guardHit /\ en_default # Null
                              /\ en_default \in DOMAIN mapping
                           THEN mapping[en_default] ELSE dflt1
         IN  [d EXCEPT ![new_id] = [n EXCEPT !.hasNext = TRUE,
                                             !.conds = NextConds(n),
                                             !.dflt = dflt2]]

RECURSIVE CorrectDefaults(_, _, _, _, _, _)
CorrectDefaults(d, mapping, order, edm, template_start_id, i) ==
    IF i > Len(order) THEN d
    ELSE CorrectDefaults(
             CorrectNode(d, mapping, edm, template_start_id, order[i], mapping[order[i]]),
             mapping, order, edm, template_start_id, i + 1)

\* ------------------------------------------------------------ CrumbPropagator
\* the non-null targets a visited node pushes: condition results in list
\* order, then the default (lines 1051-1056)
Pushes(n) ==
    LET res == [i \in 1..Len(NextConds(n)) |-> NextConds(n)[i].result]
        nonNull == SelectSeq(res, LAMBDA r : r # Null)
    IN  IF NextDefault(n) # Null THEN Append(nonNull, NextDefault(n)) ELSE nonNull

\* propagate_crumb (lines 1035-1056): the while loop over the stack; fuel
\* counts the pops still allowed, the result tells whether the loop ended
RECURSIVE propagate_loop(_, _, _, _, _, _)
propagate_loop(d, mapped_values, stack, seen, crumb_value, fuel) ==
    IF stack = <<>> THEN [doc |-> d, ended |-> TRUE, seen |-> seen]
    ELSE IF fuel = 0 THEN [doc |-> d, ended |-> FALSE, seen |-> seen]
    ELSE LET nid  == stack[Len(stack)]
             rest == SubSeq(stack, 1, Len(stack) - 1)
         IN  IF nid \in seen \/ nid \notin DOMAIN d \/ nid \notin mapped_values
             THEN propagate_loop(d, mapped_values, rest, seen, crumb_value, fuel - 1)
             ELSE LET n  == d[nid]
                      d1 == IF n.tid # "visitreason" /\ n.crumb.base = ""
                            THEN [d EXCEPT ![nid].crumb = crumb_value]
                            ELSE d
                  IN  propagate_loop(d1, mapped_values, rest \o Pushes(n),
                                     seen \cup {nid}, crumb_value, fuel - 1)

\* an upper bound on the pops of one propagation: the start plus every edge
\* of every node of the document
PopBound(d) ==
    LET RECURSIVE Sum(_)
        Sum(S) == IF S = {} THEN 0
                  ELSE LET k == CHOOSE x \in S : TRUE
                       IN  Len(Pushes(d[k])) + Sum(S \ {k})
    IN  1 + Sum(DOMAIN d)

\* MUTANT of propagate_crumb: the seen set is never filled
propagate_crumb_NoSeen(st, mapped_values, from_id, crumb_value) ==
    LET RECURSIVE loop(_, _, _)
        loop(d, stack, fuel) ==
            IF stack = <<>> THEN [doc |-> d, ended |-> TRUE]
            ELSE IF fuel = 0 THEN [doc |-> d, ended |-> FALSE]
            ELSE LET nid  == stack[Len(stack)]
                     rest == SubSeq(stack, 1, Len(stack) - 1)
                 IN  IF nid \notin DOMAIN d \/ nid \notin mapped_values
                     THEN loop(d, rest, fuel - 1)
                     ELSE loop(IF d[nid].tid # "visitreason" /\ d[nid].crumb.base = ""
                               THEN [d EXCEPT ![nid].crumb = crumb_value] ELSE d,
                               rest \o Pushes(d[nid]), fuel - 1)
    IN  IF ~st.ended THEN st ELSE loop(st.doc, <<from_id>>, PopBound(st.doc))

\* one call of propagate_crumb on the state st = [doc, ended]
propagate_crumb(st, mapped_values, from_id, crumb_value) ==
    IF ~st.ended THEN st
    ELSE LET r == propagate_loop(st.doc, mapped_values, <<from_id>>, {},
                                 crumb_value, PopBound(st.doc))
         IN  [doc |-> r.doc, ended |-> r.ended]

\* rid_to_title.get(rid, dflt) over configuration.reasons of the sub-choice
\* node vr
TitleOf(vr, rid, dflt) ==
    LET hits == {i \in 1..Len(vr.reasons) : vr.reasons[i].id = rid}
    IN  IF hits = {} THEN dflt ELSE Text(vr.reasons[SetMax(hits)].title, vr.lang)

\* lines 1029-1033: the direct targets of the sub-choice conditions get the
\* option title (or keep their crumb when the option has no title)
RECURSIVE CrumbTargets(_, _, _, _)
CrumbTargets(d, vr, conds, i) ==
    IF i > Len(conds) THEN d
    ELSE LET target == conds[i].result
         IN  CrumbTargets(
               IF target # Null /\ target \in DOMAIN d
               THEN [d EXCEPT ![target].crumb =
                        TitleOf(vr, conds[i].rval, d[target].crumb)]
               ELSE d, vr, conds, i + 1)

\* lines 1058-1063: propagation from every condition target
RECURSIVE PropagateTargets(_, _, _, _, _, _)
PropagateTargets(st, mapped_values, vr, conds, language_label, i) ==
    IF i > Len(conds) THEN st
    ELSE PropagateTargets(
           IF conds[i].result # Null
           THEN propagate_crumb(st, mapped_values, conds[i].result,
                                TitleOf(vr, conds[i].rval, language_label))
           ELSE st, mapped_values, vr, conds, language_label, i + 1)

\* lines 1018-1066, one iteration of the loop over mapping.items()
CrumbNode(st, mapped_values, new_id, language_label) ==
    IF new_id \notin DOMAIN st.doc \/ st.doc[new_id].tid # "visitreason" THEN st
    ELSE LET d1    == [st.doc EXCEPT ![new_id].crumb = language_label]
             vr    == d1[new_id]
             conds == NextConds(vr)
             d2    == CrumbTargets(d1, vr, conds, 1)
             st3   == PropagateTargets([doc |-> d2, ended |-> st.ended],
                                       mapped_values, vr, conds, language_label, 1)
         IN  IF NextDefault(d2[new_id]) # Null
             THEN propagate_crumb(st3, mapped_values, NextDefault(d2[new_id]),
                                  language_label)
             ELSE st3

RECURSIVE Crumbs(_, _, _, _, _)
Crumbs(st, mapping, order, language_label, i) ==
    IF i > Len(order) THEN st
    ELSE Crumbs(CrumbNode(st, {mapping[o] : o \in DOMAIN mapping},
                          mapping[order[i]], language_label),
                mapping, order, language_label, i + 1)

\* adjust_cloned_branch_for_end_thanks_and_crumbs: the document after the
\* call, and whether every propagation loop ended
adjust_cloned_branch_for_end_thanks_and_crumbs(d, mapping, order, template_start_id, language_label) ==
    LET start_new_id == IF template_start_id \in DOMAIN mapping
                        THEN mapping[template_start_id] ELSE Null
        d1  == IF start_new_id # Null /\ start_new_id \in DOMAIN d
               THEN [d EXCEPT ![start_new_id].crumb = language_label] ELSE d
        edm == english_default_map(d1, mapping)
        d2  == CorrectDefaults(d1, mapping, order, edm, template_start_id, 1)
    IN  Crumbs([doc |-> d2, ended |-> TRUE], mapping, order, language_label, 1)

\* MUTANT of TranslateBranch: the loop translates the template nodes, the keys
\* of the mapping, instead of its values
RECURSIVE TranslateBranch_SourceIds(_, _, _, _, _, _)
TranslateBranch_SourceIds(d, mapping, order, target_iso, failed, i) ==
    IF i > Len(order) THEN d
    ELSE LET new_id == order[i]
         IN  TranslateBranch_SourceIds(
               IF new_id \in DOMAIN d
               THEN [d EXCEPT ![new_id] =
                        translate_node(@, target_iso, new_id \notin failed)]
               ELSE d, mapping, order, target_iso, failed, i + 1)

\* lines 1173-1178: translation of the nodes of the corrected mapping;
\* failed is the set of nodes for which the backend fails
RECURSIVE TranslateBranch(_, _, _, _, _, _)
TranslateBranch(d, mapping, order, target_iso, failed, i) ==
    IF i > Len(order) THEN d
    ELSE LET new_id == mapping[order[i]]
         IN  TranslateBranch(
               IF new_id \in DOMAIN d
               THEN [d EXCEPT ![new_id] =
                        translate_node(@, target_iso, new_id \notin failed)]
               ELSE d, mapping, order, target_iso, failed, i + 1)

\* ------------------------------------------------------- initial documents
BranchKeys == 2..MaxNode

Refs == {Null} \cup BranchKeys

Cond(rval, result) ==
    [lval |-> "reason_id", op |-> "==", rval |-> rval, result |-> result]

NoNext == [hasNext |-> FALSE, conds |-> <<>>, dflt |-> Null]

HasNext(conds, dflt) == [hasNext |-> TRUE, conds |-> conds, dflt |-> dflt]

\* the content of a branch node before it is given a key
Content(tid, nx, reasons, crumb) ==
    [tid |-> tid, next |-> nx, reasons |-> reasons, crumb |-> crumb]

Plain(tid, nx) == Content(tid, nx, <<>>, NoCrumb)

\* the "next" values of a branch node: null, or up to one condition and a
\* default, each null or the key of a branch node
NextShapes ==
    {NoNext} \cup {HasNext(c, r) :
                     c \in {<<>>} \cup {<<Cond(1, t)>> : t \in Refs}, r \in Refs}

\* a template node: any tag and next (a terminal-tagged node may carry a
\* default, but no conditions)
BranchContent ==
    {Plain(tid, nx) : tid \in {"info"}, nx \in NextShapes}
    \cup {Plain("thanks", nx) : nx \in {n \in NextShapes : n.conds = <<>>}}

\* the template lives on keys 2 and 3; the keys above hold the stale content
\* of other branches
TemplateKeys == {2, 3}

StaleKeys == BranchKeys \ TemplateKeys

\* stale content: a page that routes into the template and loops on itself;
\* the last key may also hold a terminal page
StaleContent(k) ==
    {Plain("info", HasNext(<<Cond(1, 2)>>, k))}
    \cup (IF k = MaxNode THEN {Plain("thanks", NoNext)} ELSE {})

StaleBodies ==
    {st \in [StaleKeys -> UNION {StaleContent(k) : k \in StaleKeys}] :
        \A k \in StaleKeys : st[k] \in StaleContent(k)}

Bodies ==
    {[k \in BranchKeys |-> IF k \in TemplateKeys THEN t[k] ELSE st[k]] :
        t \in [TemplateKeys -> BranchContent], st \in StaleBodies}

\* the simple templates: a chain without conditions
SimpleBodies ==
    {body \in Bodies :
        /\ body[2].next.hasNext /\ body[2].next.conds = <<>>
        /\ body[2].tid = "info" /\ body[2].next.dflt \in {Null, 3}
        /\ body[3].next.conds = <<>> /\ body[3].next.dflt \in {Null, 2}
        /\ (body[3].tid = "thanks" <=> ~body[3].next.hasNext)
        /\ body[MaxNode].tid = "info"}

\* templates with sub-choice pages: the entry is a sub-choice page whose
\* option 1 ("Staff") has a condition, the second template node is a
\* sub-choice or a plain page that may already carry a crumb
SubChoiceReasons == <<[id |-> 1, title |-> "Staff"], [id |-> 2, title |-> "Visitor"]>>

CrumbBodies ==
    {[k \in BranchKeys |->
        IF k = 2 THEN Content("visitreason", HasNext(<<Cond(1, t)>>, r),
                              SubChoiceReasons, NoCrumb)
        ELSE IF k = 3 THEN c3
        ELSE Plain("info", HasNext(<<>>, k))] :
        t \in TemplateKeys, r \in {Null} \cup TemplateKeys,
        c3 \in {Content(tid, HasNext(c, r3), SubChoiceReasons, cr) :
                  tid \in {"visitreason", "info"},
                  c \in {<<>>} \cup {<<Cond(2, t3)>> : t3 \in TemplateKeys},
                  r3 \in {Null} \cup TemplateKeys,
                  cr \in {NoCrumb, Text("Kept", "src")}}}

\* the routing conditions of the language page: an option is wired by an
\* explicit condition (to a key, or to null) or has none
Wire(r) == [has |-> TRUE, result |-> r]

Unwired == [has |-> FALSE, result |-> Null]

Wirings == {Unwired} \cup {Wire(r) : r \in {Null} \cup (1..MaxNode)}

PageConds(w) ==
    LET c(i) == IF w[i].has THEN <<Cond(i, w[i].result)>> ELSE <<>>
    IN  c(1) \o c(2) \o c(3)

LanguagePage(labels, w, pdef) ==
    [id |-> 1, tid |-> "choice", dn |-> "language",
     reasons |-> [i \in 1..Len(labels) |-> [id |-> i, title |-> labels[i]]],
     crumb |-> NoCrumb, lang |-> "src",
     hasNext |-> TRUE, conds |-> PageConds(w), dflt |-> pdef]

Node(id, c) ==
    [id |-> id, tid |-> c.tid, dn |-> "", reasons |-> c.reasons,
     crumb |-> c.crumb, lang |-> "src", hasNext |-> c.next.hasNext,
     conds |-> c.next.conds, dflt |-> c.next.dflt]

InitialDoc(body, labels, w, pdef) ==
    [k \in 1..MaxNode |->
        IF k = 1 THEN LanguagePage(labels, w, pdef) ELSE Node(k, body[k])]

\* every template shape under the plain wiring (the template on 2, one other
\* option wired to the page, to a template node or to the last key, the third
\* option unwired)
ShapeDocs ==
    {InitialDoc(body, <<"English", "French", "Spanish">>,
                <<Wire(2), Wire(f), Unwired>>, Null) :
        body \in Bodies, f \in {1, MaxNode} \cup TemplateKeys}

\* every wiring of the language page over the simple templates
WiringDocs ==
    {InitialDoc(body, <<"English", "French", third[1]>>,
                <<we, wf, third[2]>>, pdef) :
        body \in SimpleBodies,
        we \in {Wire(2), Unwired},
        wf \in Wirings,
        third \in {<<"Spanish", Unwired>>, <<"Spanish", Wire(MaxNode)>>,
                   <<"Q", Wire(MaxNode)>>},
        pdef \in {Null, 2, MaxNode}}

\* the sub-choice templates under the plain wiring
CrumbDocs ==
    {InitialDoc(body, <<"English", "French", "Spanish">>,
                <<Wire(2), Wire(MaxNode), Unwired>>, Null) :
        body \in CrumbBodies}

\* an option routed by two conditions of the language page (the page's
\* conditions are a list: nothing makes an option's condition unique)
DuplicateDocs ==
    {[InitialDoc(body, <<"English", "French", "Spanish">>,
                 <<Wire(2), Unwired, Unwired>>, Null)
         EXCEPT ![1].conds = <<Cond(1, 2), Cond(2, a), Cond(2, b)>>] :
        body \in SimpleBodies, a \in {Null, 3, MaxNode}, b \in {Null, 3, MaxNode}}

InitialDocs == ShapeDocs \cup WiringDocs \cup CrumbDocs \cup DuplicateDocs

NoRun == [page |-> Null, labels |-> <<>>, l2i |-> <<>>, l2s |-> <<>>,
          english_start |-> Null,
          template_shape |-> [templ |-> <<>>, branch |-> <<>>], idx |-> 0]

NoSummary == [nodes_created |-> 0, nodes_updated |-> 0, strings_translated |-> 0,
              languages_processed |-> 0, warnings |-> <<>>]

NoGraft == [kind |-> "none", label |-> NoCrumb, entry |-> Null, mapping |-> <<>>,
            order |-> <<>>, new_start |-> Null, pre |-> <<>>, ended |-> TRUE,
            failed |-> {}, cloned |-> 0]

\* the configuration and the progress of process_workflow_pipeline:
\* config.dry_run, args.self_test, inner["starting_node_id"] (Null when
\* missing or empty), the result of validate_inner once it has run, the
\* document it ran on, and the number of calls of client.put_workflow
Pipe(dry_run, self_test, starting_node_id) ==
    [dry_run |-> dry_run, self_test |-> self_test,
     starting_node_id |-> starting_node_id,
     validated |-> FALSE, errors |-> {}, warnings |-> {},
     validated_doc |-> <<>>, puts |-> 0]

\* write mode, no self-test, starting at the language page
WriteMode == Pipe(FALSE, FALSE, 1)

\* the state when a document of the set docs has been loaded
Fresh ==
    /\ pc = "idle"
    /\ run = NoRun
    /\ summary = NoSummary
    /\ graft = NoGraft
    /\ doc0 = doc
    /\ runs = 0
    /\ walks = <<>>

Loaded(docs) ==
    /\ doc \in docs
    /\ pipe = WriteMode
    /\ Fresh

Init == Loaded(InitialDocs)

\* MUTANT of StartRun: a template without a discoverable entry falls back to
\* the lowest key after the page instead of ending the run
StartRun_GuessesEntry ==
    /\ pc = "idle"
    /\ runs < MaxRuns
    /\ runs' = runs + 1
    /\ doc0' = doc
    /\ graft' = NoGraft
    /\ summary' = NoSummary
    /\ UNCHANGED <<doc, walks, pipe>>
    /\ LET pk == find_language_page(doc)
       IN  IF pk = Null \/ Len(doc[pk].reasons) = 0
           THEN pc' = "error" /\ run' = NoRun
           ELSE LET page == doc[pk]
                    l2i  == label_to_id(page)
                    l2s0 == build_label_to_startnode(page)
                    src  == SOURCE_LANGUAGE_LABEL
                    wired == src \in DOMAIN l2s0 /\ l2s0[src] # Null
                IN  IF src \notin DOMAIN l2i
                    THEN pc' = "error" /\ run' = NoRun
                    ELSE LET es == IF wired THEN l2s0[src]
                                   ELSE IF NextDefault(page) # Null
                                        THEN NextDefault(page)
                                        ELSE SetMin(DOMAIN doc \ {pk})
                             l2s == [l \in DOMAIN l2s0 \cup {src} |->
                                       IF l = src THEN es ELSE l2s0[l]]
                         IN  /\ pc' = "loop"
                             /\ run' = [page |-> pk,
                                        labels |-> ChoiceLabels(page),
                                        l2i |-> l2i, l2s |-> l2s,
                                        english_start |-> es,
                                        template_shape |->
                                            compute_shape_signature(doc, es),
                                        idx |-> 1]

\* ------------------------------------------------------- process_languages
\* lines 1084-1113 (after find_language_page of the pipeline): the maps, the
\* template entry and the template's shape; a ValueError ends the run
StartRun ==
    /\ pc = "idle"
    /\ runs < MaxRuns
    /\ runs' = runs + 1
    /\ doc0' = doc
    /\ graft' = NoGraft
    /\ summary' = NoSummary
    /\ UNCHANGED <<doc, walks, pipe>>
    /\ LET pk == find_language_page(doc)
       IN  IF pk = Null \/ Len(doc[pk].reasons) = 0
           THEN pc' = "error" /\ run' = NoRun
           ELSE LET page == doc[pk]
                    l2i  == label_to_id(page)
                    l2s0 == build_label_to_startnode(page)
                    src  == SOURCE_LANGUAGE_LABEL
                    wired == src \in DOMAIN l2s0 /\ l2s0[src] # Null
                IN  IF src \notin DOMAIN l2i
                       \/ (~wired /\ NextDefault(page) = Null)
                    THEN pc' = "error" /\ run' = NoRun
                    ELSE LET es == IF wired THEN l2s0[src] ELSE NextDefault(page)
                             l2s == [l \in DOMAIN l2s0 \cup {src} |->
                                       IF l = src THEN es ELSE l2s0[l]]
                         IN  /\ pc' = "loop"
                             /\ run' = [page |-> pk,
                                        labels |-> ChoiceLabels(page),
                                        l2i |-> l2i, l2s |-> l2s,
                                        english_start |-> es,
                                        template_shape |->
                                            compute_shape_signature(doc, es),
                                        idx |-> 1]

\* lines 1187-1194: the shape check that follows a graft or a skip
ShapeWarning(d, label) ==
    LET r == _get_language_result(d[run.page], label, run.l2i)
    IN  IF r # Null /\ r \in DOMAIN d
           /\ compute_shape_signature(d, r) # run.template_shape
        THEN <<[kind |-> "topology", label |-> label]>>
        ELSE <<>>

Advance == 
    /\ run' = [run EXCEPT !.idx = @ + 1]
    /\ pc' = IF run.idx = Len(run.labels) THEN "done" ELSE "loop"
    /\ UNCHANGED <<doc0, runs, walks, pipe>>

\* line 1116: the template's own option
SkipSource ==
    /\ pc = "loop"
    /\ run.labels[run.idx] = SOURCE_LANGUAGE_LABEL
    /\ graft' = [NoGraft EXCEPT !.kind = "source", !.label = run.labels[run.idx],
                                !.pre = doc]
    /\ UNCHANGED <<doc, summary>>
    /\ Advance

\* lines 1118-1121: no locale code for the label
SkipNoIso ==
    /\ pc = "loop"
    /\ run.labels[run.idx] # SOURCE_LANGUAGE_LABEL
    /\ iso_from_label(run.labels[run.idx]) = ""
    /\ graft' = [NoGraft EXCEPT !.kind = "iso", !.label = run.labels[run.idx],
                                !.pre = doc]
    /\ summary' = [summary EXCEPT !.warnings =
                      Append(@, [kind |-> "iso", label |-> run.labels[run.idx]])]
    /\ UNCHANGED doc
    /\ Advance

HasEntry(label) ==
    /\ label \in DOMAIN run.l2s
    /\ run.l2s[label] # Null
    /\ run.l2s[label] \in DOMAIN doc

\* lines 1182-1194: no wired entry
SkipUnwired ==
    /\ pc = "loop"
    /\ LET label == run.labels[run.idx]
       IN  /\ label # SOURCE_LANGUAGE_LABEL
           /\ iso_from_label(label) # ""
           /\ ~HasEntry(label)
           /\ graft' = [NoGraft EXCEPT !.kind = "skip", !.label = label, !.pre = doc]
           /\ summary' = [summary EXCEPT
                  !.languages_processed = @ + 1,
                  !.warnings = Append(@, [kind |-> "skip", label |-> label])
                               \o ShapeWarning(doc, label)]
    /\ UNCHANGED doc
    /\ Advance

\* lines 1126-1181 and 1187-1194: clone, splice, adjust, translate, check
GraftBranch ==
    /\ pc = "loop"
    /\ LET label == run.labels[run.idx]
           iso   == iso_from_label(label)
       IN  /\ label # SOURCE_LANGUAGE_LABEL
           /\ iso # ""
           /\ HasEntry(label)
           /\ LET existing_start == run.l2s[label]
                  c == clone_subgraph(doc, run.english_start)
              IN  IF c.err
                  THEN /\ pc' = "error"
                       /\ graft' = [NoGraft EXCEPT !.kind = "keyerror",
                                                   !.label = label, !.pre = doc]
                       /\ doc' = c.doc
                       /\ run' = run
                       /\ UNCHANGED <<summary, doc0, runs, walks, pipe>>
                  ELSE LET d2 == Splice(c.doc, existing_start, c.new_start)
                           mapping == CorrectedMapping(c.mapping, existing_start,
                                                       c.new_start)
                           values == {mapping[o] : o \in DOMAIN mapping}
                           adj == adjust_cloned_branch_for_end_thanks_and_crumbs(
                                      d2, mapping, c.order, run.english_start, label)
                       IN  \E failed \in {{}, values} :
                             LET d4 == TranslateBranch(adj.doc, mapping, c.order,
                                                       iso, failed, 1)
                                 changed == Cardinality(
                                     {v \in values \cap DOMAIN d4 :
                                         d4[v].lang # adj.doc[v].lang})
                             IN  /\ doc' = d4
                                 /\ graft' = [kind |-> "graft", label |-> label,
                                              entry |-> existing_start,
                                              mapping |-> mapping, order |-> c.order,
                                              new_start |-> c.new_start, pre |-> doc,
                                              ended |-> adj.ended, failed |-> failed,
                                              cloned |-> Cardinality(DOMAIN c.doc)
                                                         - Cardinality(DOMAIN doc)]
                                 /\ summary' = [summary EXCEPT
                                        !.languages_processed = @ + 1,
                                        !.nodes_created = @ + Len(c.order) - 1,
                                        !.nodes_updated = @ + 1,
                                        !.strings_translated = @ + changed,
                                        !.warnings = @ \o ShapeWarning(d4, label)]
                                 /\ Advance

Next == StartRun \/ SkipSource \/ SkipNoIso \/ SkipUnwired \/ GraftBranch

Spec == Init /\ [][Next]_vars

\* ------------------------------------------------------------ a second run
\* the pipeline is run again on the document the last run wrote
\* the documents of the walker and cloner calls and of the second run: every
\* template, the other option wired to the last key
OpsBodies ==
    {body \in Bodies : \A k \in StaleKeys : body[k].tid = "info"} \cup CrumbBodies

OpsDocs ==
    {InitialDoc(body, <<"English", "French", "Spanish">>,
                <<Wire(2), Wire(MaxNode), Unwired>>, Null) : body \in OpsBodies}

\* and the simple templates with an option wired into the template, and with
\* an option whose label has no locale code
RerunDocs ==
    OpsDocs
    \cup {InitialDoc(body, <<"English", "French", third>>,
                     <<Wire(2), Wire(3), Wire(MaxNode)>>, Null) :
             body \in SimpleBodies, third \in {"Spanish", "Q"}}

InitRerun == Loaded(RerunDocs)

Rerun ==
    /\ pc = "done"
    /\ runs < MaxRuns
    /\ pc' = "idle"
    /\ UNCHANGED <<doc, run, summary, graft, doc0, runs, walks, pipe>>

NextRerun == Next \/ Rerun

SpecRerun == InitRerun /\ [][NextRerun]_vars

\* ------------------------------------------- the walker and the cloner alone
\* the start ids of the calls: a template node, or an id no node has
StartIds == {Null} \cup TemplateKeys

\* documents with references to an id no node has
Absent == MaxNode + 1

\* the id clone_subgraph gives the last node of a walk over all branch nodes
LastCloneId == 2 * MaxNode - 1

\* a chain 2 -> 3 -> ... -> MaxNode whose first node has a condition that names
\* the next node, an id just above the keys or the id of the last clone to be
ChainDocs ==
    {InitialDoc([k \in BranchKeys |->
                    IF k = 2 THEN Plain("info", HasNext(<<Cond(1, a)>>, 3))
                    ELSE IF k < MaxNode THEN Plain("info", HasNext(<<>>, k + 1))
                    ELSE Plain("info", HasNext(<<>>, Null))],
                <<"English", "French", "Spanish">>,
                <<Wire(2), Wire(MaxNode), Unwired>>, Null) :
        a \in {3, Absent, LastCloneId}}

DanglingDocs ==
    {InitialDoc([k \in BranchKeys |->
                    IF k = 2 THEN Plain("info", HasNext(<<Cond(1, a)>>, b))
                    ELSE Plain("info", HasNext(<<>>, c))],
                <<"English", "French", "Spanish">>,
                <<Wire(2), Wire(MaxNode), Unwired>>, Null) :
        a \in {3, Absent}, b \in {3, Absent}, c \in {Null, 2, Absent}}
    \cup ChainDocs

InitOps == Loaded(OpsDocs \cup DanglingDocs)

\* MUTANT of WalkCall: the visited set outlives the call, so a second call
\* starts from what the first one left
WalkCall_SharedVisited ==
    /\ Len(walks) < MaxCalls
    /\ doc' = doc
    /\ \E s \in StartIds :
         LET kept == IF walks = <<>> THEN {} ELSE walks[Len(walks)].visited
             w == dfs(doc, s, [order |-> <<>>, visited |-> kept])
         IN  walks' = Append(walks,
                 [kind |-> "walk", start |-> s, pre |-> doc, post |-> doc',
                  order |-> w.order, visited |-> w.visited,
                  sig |-> compute_shape_signature(doc, s),
                  mapping |-> <<>>, err |-> FALSE])
    /\ UNCHANGED <<pc, run, summary, graft, doc0, runs, pipe>>

\* one call of walk_subgraph and of compute_shape_signature: order and
\* visited are created by the call (lines 432-433), the document is only read
WalkCall ==
    /\ Len(walks) < MaxCalls
    /\ doc' = doc
    /\ \E s \in StartIds :
         LET w == walk_subgraph(doc, s)
         IN  walks' = Append(walks,
                 [kind |-> "walk", start |-> s, pre |-> doc, post |-> doc',
                  order |-> w.order, visited |-> w.visited,
                  sig |-> compute_shape_signature(doc, s),
                  mapping |-> <<>>, err |-> FALSE])
    /\ UNCHANGED <<pc, run, summary, graft, doc0, runs, pipe>>

\* one call of clone_subgraph; the KeyError of line 928 leaves the document
\* as it was
CloneCall ==
    /\ Len(walks) < MaxCalls
    /\ \E s \in StartIds :
         LET c == clone_subgraph(doc, s)
         IN  /\ doc' = c.doc
             /\ walks' = Append(walks,
                 [kind |-> "clone", start |-> s, pre |-> doc, post |-> doc',
                  order |-> c.order, visited |-> Range(c.order),
                  sig |-> compute_shape_signature(doc, s),
                  mapping |-> c.mapping, err |-> c.err])
    /\ UNCHANGED <<pc, run, summary, graft, doc0, runs, pipe>>

NextOps == WalkCall \/ CloneCall

SpecOps == InitOps /\ [][NextOps]_vars

\* ------------------------------------------------------------- Validator
Finding(kind, node, target) == [kind |-> kind, node |-> node, target |-> target]

\* MUTANT of validate_inner: a default that names no node is not reported
validate_inner_NoDefaultCheck(d, starting_node_id) ==
    LET CondResults(n) == {NextConds(n)[i].result : i \in 1..Len(NextConds(n))}
        Missing(t)     == t # Null /\ t \notin DOMAIN d
    IN  [errors |->
             {Finding("start", Null, t) :
                 t \in {y \in {starting_node_id} : Missing(y)}}
             \cup UNION {{Finding("cond", k, t) :
                             t \in {r \in CondResults(d[k]) : Missing(r)}} :
                         k \in DOMAIN d}
             \cup {Finding("nodefault", k, Null) :
                      k \in {n \in DOMAIN d : /\ d[n].tid # "thanks"
                                              /\ NextDefault(d[n]) = Null}},
         warnings |->
             {Finding("mismatch", k, d[k].id) :
                 k \in {n \in DOMAIN d : d[n].id # n}}]

\* validate_inner(inner): the errors and the warnings, as sets of findings;
\* starting_node_id is inner["starting_node_id"], Null when missing or empty
validate_inner(d, starting_node_id) ==
    LET CondResults(n) == {NextConds(n)[i].result : i \in 1..Len(NextConds(n))}
        Missing(t)     == t # Null /\ t \notin DOMAIN d
    IN  IF DOMAIN d = {}
        THEN [errors |-> {Finding("empty", Null, Null)}, warnings |-> {}]
        ELSE [errors |->
                 {Finding("start", Null, t) :
                     t \in {y \in {starting_node_id} : Missing(y)}}
                 \cup UNION {{Finding("cond", k, t) :
                                 t \in {r \in CondResults(d[k]) : Missing(r)}} :
                             k \in DOMAIN d}
                 \cup {Finding("default", k, NextDefault(d[k])) :
                          k \in {n \in DOMAIN d : Missing(NextDefault(d[n]))}}
                 \cup {Finding("nodefault", k, Null) :
                          k \in {n \in DOMAIN d : /\ d[n].tid # "thanks"
                                                  /\ NextDefault(d[n]) = Null}},
              warnings |->
                 {Finding("mismatch", k, d[k].id) :
                     k \in {n \in DOMAIN d : d[n].id # n}}
                 \cup (IF find_language_page(d) = Null
                       THEN {Finding("nopage", Null, Null)} ELSE {})]

\* ------------------------------------------------ process_workflow_pipeline
\* documents on which the run aborts at once: no language page, a page
\* without options, the source label not among the options
FatalDocs ==
    {[InitialDoc(body, <<"English", "French", "Spanish">>,
                 <<Wire(2), Wire(MaxNode), Unwired>>, 2) EXCEPT ![1].dn = "other"] :
        body \in SimpleBodies}
    \cup {InitialDoc(body, labels, <<Wire(2), Wire(MaxNode), Unwired>>, 2) :
            body \in SimpleBodies,
            labels \in {<<>>, <<"French", "Spanish", "Q">>}}

\* the simple templates with the template's option wired (to a node or to
\* null) or not, a page default or none, and every wiring of the second
\* option; a third option whose label has no locale code
PipeDocs ==
    FatalDocs
    \cup {InitialDoc(body, <<"English", "French", "Spanish">>,
                     <<we, wf, Unwired>>, pdef) :
            body \in SimpleBodies, we \in {Wire(2), Wire(Null), Unwired},
            wf \in Wirings, pdef \in {Null, 2}}
    \cup {InitialDoc(body, <<"English", "French", "Q">>,
                     <<Wire(2), Wire(MaxNode), Unwired>>, Null) :
            body \in SimpleBodies}

InitPipeline ==
    /\ doc \in PipeDocs
    /\ pipe \in {Pipe(dr, st, sn) :
                   dr \in BOOLEAN, st \in BOOLEAN, sn \in {Null, 1, Absent}}
    /\ Fresh

\* lines 1390-1408: a missing token or workflow id, a failed GET or a body
\* that does not parse end the run before the document is touched
FetchFails ==
    /\ pc = "idle"
    /\ runs = 0
    /\ ~pipe.self_test
    /\ pc' = "error"
    /\ UNCHANGED <<doc, run, summary, graft, doc0, runs, walks, pipe>>

\* line 1424: in dry-run mode the pipeline ends after the summary
DryRunEnd ==
    /\ pc = "done"
    /\ pipe.dry_run
    /\ pc' = "finished"
    /\ UNCHANGED <<doc, run, summary, graft, doc0, runs, walks, pipe>>

\* MUTANT of Validate: the pipeline goes on to the PUT whatever the validator
\* returned
Validate_IgnoresErrors ==
    /\ pc = "done"
    /\ ~pipe.dry_run
    /\ LET v == validate_inner(doc, pipe.starting_node_id)
       IN  /\ pipe' = [pipe EXCEPT !.validated = TRUE, !.errors = v.errors,
                                   !.warnings = v.warnings, !.validated_doc = doc]
           /\ pc' = "validated"
    /\ UNCHANGED <<doc, run, summary, graft, doc0, runs, walks>>

\* lines 1424-1433: validate before PUT; any error ends the run
Validate ==
    /\ pc = "done"
    /\ ~pipe.dry_run
    /\ LET v == validate_inner(doc, pipe.starting_node_id)
       IN  /\ pipe' = [pipe EXCEPT !.validated = TRUE, !.errors = v.errors,
                                   !.warnings = v.warnings, !.validated_doc = doc]
           /\ pc' = IF v.errors # {} THEN "aborted" ELSE "validated"
    /\ UNCHANGED <<doc, run, summary, graft, doc0, runs, walks>>

\* lines 1443-1472: ids and targets rewritten as strings (they are strings
\* already in this model's documents), the body serialized, and the PUT,
\* which is skipped in self-test mode and may raise
Put ==
    /\ pc = "validated"
    /\ IF pipe.self_test
       THEN pc' = "finished" /\ pipe' = pipe
       ELSE /\ pipe' = [pipe EXCEPT !.puts = @ + 1]
            /\ \E ok \in BOOLEAN : pc' = IF ok THEN "finished" ELSE "error"
    /\ UNCHANGED <<doc, run, summary, graft, doc0, runs, walks>>

NextPipeline ==
    \/ Next
    \/ FetchFails
    \/ DryRunEnd
    \/ Validate
    \/ Put

SpecPipeline == InitPipeline /\ [][NextPipeline]_vars

\* ------------------------------------------------------ the validator alone
\* documents with and without defects: references to an id no node has,
\* pages without a default, a terminal page with and without a next, a node
\* whose id field differs from its key
ValidateDocs ==
    {[InitialDoc([k \in BranchKeys |->
                     IF k = 2 THEN Plain("info", HasNext(<<Cond(1, a)>>, b))
                     ELSE IF k = 3 THEN Plain(tid3, nx3)
                     ELSE Plain("info", HasNext(<<>>, k))],
                 <<"English", "French", "Spanish">>,
                 <<Wire(2), Wire(MaxNode), Unwired>>, pdef)
         EXCEPT ![3].id = id3] :
        a \in {Null, 3, Absent}, b \in {Null, 3, Absent},
        tid3 \in {"info", "thanks"},
        nx3 \in {NoNext, HasNext(<<>>, Null), HasNext(<<>>, 2),
                 HasNext(<<>>, Absent)},
        id3 \in {3, 2}, pdef \in {Null, 2}}

InitValidate ==
    /\ doc \in ValidateDocs
    /\ pipe \in {Pipe(FALSE, FALSE, sn) : sn \in {Null, 1, Absent}}
    /\ Fresh

\* one call of validate_inner
ValidateCall ==
    /\ pc = "idle"
    /\ LET v == validate_inner(doc, pipe.starting_node_id)
       IN  pipe' = [pipe EXCEPT !.validated = TRUE, !.errors = v.errors,
                                !.warnings = v.warnings, !.validated_doc = doc]
    /\ pc' = "checked"
    /\ UNCHANGED <<doc, run, summary, graft, doc0, runs, walks>>

NextValidate == ValidateCall

SpecValidate == InitValidate /\ [][NextValidate]_vars

\* ---------------------------------------- templates with nested sub-choices
\* the key of the other option's entry in the documents below: a key after
\* the template's
EntryKey == MaxNode + 2

\* a sub-choice page and a plain page of these templates
SubChoice(conds, dflt) ==
    Content("visitreason", HasNext(conds, dflt), SubChoiceReasons, NoCrumb)

Page(dflt, crumb) == Content("info", HasNext(<<>>, dflt), <<>>, crumb)

\* templates on the keys 2 to 5 with one or more sub-choice pages, pages
\* behind a condition target and behind a default, with and without a crumb
\* of their own, with back-edges; the other option's entry is a page of its own
DeepCrumbBodies ==
    {[k \in 2..EntryKey |->
        IF k = 2 THEN n2 ELSE IF k = 3 THEN n3 ELSE IF k = 4 THEN n4
        ELSE IF k = 5 THEN n5 ELSE Plain("info", HasNext(<<>>, k))] :
        n2 \in {SubChoice(c, r) : c \in {<<Cond(1, 3)>>, <<Cond(1, 3), Cond(2, 4)>>},
                                  r \in {Null, 3, 4}}
               \cup {Page(3, NoCrumb)},
        n3 \in {Page(r, cr) : r \in {Null, 4, 2}, cr \in {NoCrumb, Text("Kept", "src")}}
               \cup {SubChoice(<<Cond(2, 4)>>, r) : r \in {Null, 4}},
        n4 \in {Page(r, cr) : r \in {Null, 3, 5}, cr \in {NoCrumb, Text("Kept", "src")}}
               \cup {SubChoice(<<Cond(2, 3)>>, Null)},
        n5 \in {Page(Null, cr) : cr \in {NoCrumb, Text("Kept", "src")}}}

DeepCrumbDocs ==
    {[k \in 1..EntryKey |->
        IF k = 1
        THEN LanguagePage(<<"English", "French", third>>,
                          <<Wire(2), Wire(EntryKey), Unwired>>, Null)
        ELSE Node(k, body[k])] :
        body \in DeepCrumbBodies, third \in {"Spanish", "Q"}}

InitCrumbs == Loaded(DeepCrumbDocs)

SpecCrumbs == InitCrumbs /\ [][Next]_vars

\* ================================================== translate_node_strings
\* a text: its leading mock prefixes ("[fr] ..." has <<"fr">>), its tokens
\* ("none"; "flat": {{x}}, %X%, #x# side by side; "nested": a token inside a
\* #...# token; "held": replaced by placeholders; "garbled": a placeholder
\* left in the text), its form ("text"; "url": a link or markup; "tokens":
\* nothing but tokens and blanks; "blank": the empty string) and the language
\* of its words
Str(pre, tok, form, lang) == [pre |-> pre, tok |-> tok, form |-> form, lang |-> lang]

Blank == Str(<<>>, "none", "blank", "src")

\* Translator.translate (lines 162-246): the mock provider prepends the
\* prefix; a real provider returns the translation, its input when the
\* request fails (status other than 200, an exception, no translations), and
\* for a translation that is the empty string "" (deepl, google) or again its
\* input (libretranslate, line 241)
Translator_translate(provider, outcome, text, target_iso) ==
    IF text.form = "blank" THEN text
    ELSE IF provider = "mock" THEN [text EXCEPT !.pre = <<target_iso>> \o @]
    ELSE CASE outcome = "ok" -> [text EXCEPT !.lang = target_iso]
           [] outcome = "blank_text" ->
                 IF provider = "libretranslate" THEN text ELSE Blank
           [] OTHER -> text

\* lines 261-276: the tokens are replaced by placeholders; the map keeps each
\* token as it was matched (a #...# token matched after the token inside it
\* was replaced keeps that placeholder)
extract_tokens(text) ==
    [sanitized    |-> IF text.tok = "none" THEN text ELSE [text EXCEPT !.tok = "held"],
     placeholders |-> text.tok]

\* lines 279-282: each placeholder found in the text is replaced once
restore_tokens(text, placeholders) ==
    IF text.tok # "held" THEN text
    ELSE [text EXCEPT !.tok = IF placeholders = "flat" THEN "flat" ELSE "garbled"]

\* lines 285-297
strip_mock_prefix(text, target_iso) ==
    IF text.pre # <<>> /\ Head(text.pre) = target_iso
    THEN [text EXCEPT !.pre = Tail(@)]
    ELSE text

\* the call's translator and target: ctx = [provider, outcome, target_iso]
\* lines 815-827
translate_string(text, ctx) ==
    IF text.form # "text" THEN text
    ELSE LET base_text == IF ctx.provider # "mock"
                          THEN strip_mock_prefix(text, ctx.target_iso) ELSE text
             ex  == extract_tokens(base_text)
             out == Translator_translate(ctx.provider, ctx.outcome, ex.sanitized,
                                         ctx.target_iso)
         IN  restore_tokens(out, ex.placeholders)

TRANSLATABLE_KEYS ==
    {"title", "message", "back", "forward", "label", "placeholder", "help",
     "description", "error", "errors", "validation_message", "subtitle", "hint"}

AutoRouting == {"invitecheck", "watchlistcheck", "hostcheck"}

\* lines 829-836 and 868-874
translatable_keys_for_node(template_id) ==
    IF template_id \in AutoRouting THEN TRANSLATABLE_KEYS \ {"title"}
    ELSE TRANSLATABLE_KEYS

label_keys_to_translate(template_id) ==
    IF template_id \in AutoRouting
    THEN (TRANSLATABLE_KEYS \cup {"loading"}) \ {"title"}
    ELSE TRANSLATABLE_KEYS

\* JSON values: a string, a dict (its items in order), a list, anything else
StrVal(s) == [kind |-> "str", val |-> s]

DictVal(items) == [kind |-> "dict", items |-> items]

ListVal(items) == [kind |-> "list", items |-> items]

OtherVal == [kind |-> "other"]

Item(k, v) == [k |-> k, v |-> v]

\* MUTANT of translate_conf_value: the keys data_name and name are handled as
\* any other key
RECURSIVE translate_conf_value_NoSkip(_, _, _, _, _)
translate_conf_value_NoSkip(value, parent_key, ancestor_translatable, keys, ctx) ==
    CASE value.kind = "dict" ->
           DictVal([i \in 1..Len(value.items) |->
               LET k == value.items[i].k
                   v == value.items[i].v
               IN  Item(k, IF v.kind = "str" /\ (k \in keys \/ ancestor_translatable)
                           THEN StrVal(translate_string(v.val, ctx))
                           ELSE translate_conf_value_NoSkip(
                                    v, k, ancestor_translatable \/ k \in keys,
                                    keys, ctx))])
      [] value.kind = "list" ->
           ListVal([i \in 1..Len(value.items) |->
               LET item == value.items[i]
               IN  IF item.kind = "dict"
                   THEN translate_conf_value_NoSkip(item, parent_key,
                                                    ancestor_translatable, keys, ctx)
                   ELSE IF item.kind = "str" /\ ancestor_translatable
                   THEN StrVal(translate_string(item.val, ctx))
                   ELSE item])
      [] value.kind = "str" ->
           IF ancestor_translatable /\ parent_key \notin {"data_name", "name"}
           THEN StrVal(translate_string(value.val, ctx)) ELSE value
      [] OTHER -> value

\* lines 838-865
RECURSIVE translate_conf_value(_, _, _, _, _)
translate_conf_value(value, parent_key, ancestor_translatable, keys, ctx) ==
    CASE value.kind = "dict" ->
           DictVal([i \in 1..Len(value.items) |->
               LET k == value.items[i].k
                   v == value.items[i].v
               IN  Item(k, IF k = "data_name" \/ k = "name" THEN v
                           ELSE IF v.kind = "str" /\ (k \in keys \/ ancestor_translatable)
                           THEN StrVal(translate_string(v.val, ctx))
                           ELSE translate_conf_value(
                                    v, k, ancestor_translatable \/ k \in keys,
                                    keys, ctx))])
      [] value.kind = "list" ->
           ListVal([i \in 1..Len(value.items) |->
               LET item == value.items[i]
               IN  IF item.kind = "dict"
                   THEN translate_conf_value(item, parent_key,
                                             ancestor_translatable, keys, ctx)
                   ELSE IF item.kind = "str" /\ ancestor_translatable
                   THEN StrVal(translate_string(item.val, ctx))
                   ELSE item])
      [] value.kind = "str" ->
           IF ancestor_translatable /\ parent_key \notin {"data_name", "name"}
           THEN StrVal(translate_string(value.val, ctx)) ELSE value
      [] OTHER -> value

\* lines 875-879: the strings of labels under the label keys
translate_labels(labels, template_id, ctx) ==
    IF labels.kind # "dict" THEN labels
    ELSE DictVal([i \in 1..Len(labels.items) |->
             LET k == labels.items[i].k
                 v == labels.items[i].v
             IN  Item(k, IF k \in label_keys_to_translate(template_id)
                            /\ v.kind = "str"
                         THEN StrVal(translate_string(v.val, ctx)) ELSE v)])

\* translated_count: the strings translate_string returned changed
RECURSIVE Changed(_, _)
Changed(before, after) ==
    LET RECURSIVE Sum(_)
        Sum(i) == IF i = 0 THEN 0
                  ELSE Sum(i - 1)
                       + (IF before.kind = "dict"
                          THEN Changed(before.items[i].v, after.items[i].v)
                          ELSE Changed(before.items[i], after.items[i]))
    IN  CASE before.kind \in {"dict", "list"} -> Sum(Len(before.items))
          [] before.kind = "str" -> IF before = after THEN 0 ELSE 1
          [] OTHER -> 0

\* lines 807-886: the node after the call and the count returned
translate_node_strings(node, ctx) ==
    LET labels == translate_labels(node.labels, node.template_id, ctx)
        conf   == IF node.configuration.kind = "dict"
                  THEN translate_conf_value(
                           node.configuration, "", FALSE,
                           translatable_keys_for_node(node.template_id), ctx)
                  ELSE node.configuration
    IN  [node  |-> [node EXCEPT !.labels = labels, !.configuration = conf],
         count |-> Changed(node.labels, labels)
                   + Changed(node.configuration, conf)]

\* ------------------------------------------------ one call on a single node
\* the strings of the inputs
PlainStr == Str(<<>>, "none", "text", "src")

MockStr(iso) == Str(<<iso>>, "none", "text", "src")

LabelStrs ==
    {Str(pre, tok, "text", "src") :
        pre \in {<<>>, <<"fr">>, <<"es">>}, tok \in {"none", "flat", "nested"}}
    \cup {Blank, Str(<<>>, "none", "url", "src"), Str(<<>>, "flat", "tokens", "src")}

ConfKeys == {"data_name", "name", "title", "reasons"}

\* configuration values nested up to MaxDepth containers deep
MaxDepth == 2

RECURSIVE ConfValues(_)
ConfValues(depth) ==
    IF depth = 0 THEN {StrVal(PlainStr), StrVal(MockStr("fr")), OtherVal}
    ELSE LET inner == ConfValues(depth - 1)
         IN  inner
             \cup {DictVal(<<Item(k, v)>>) : k \in ConfKeys, v \in inner}
             \cup {ListVal(<<v>>) : v \in inner}

Confs == {DictVal(<<Item(k, v)>>) : k \in ConfKeys, v \in ConfValues(MaxDepth)}

TranslateNodes ==
    {[template_id |-> tid,
      labels |-> DictVal(<<Item("title", StrVal(PlainStr))>>),
      configuration |-> conf] : tid \in {"info", "invitecheck"}, conf \in Confs}
    \cup {[template_id |-> tid,
           labels |-> DictVal(<<Item(k, StrVal(s))>>),
           configuration |-> DictVal(<<>>)] :
             tid \in {"info", "invitecheck"},
             k \in {"title", "loading", "name"}, s \in LabelStrs}

\* the translator of the call: the mock provider, or a real provider and how
\* its backend answers
Backends ==
    {[provider |-> "mock", outcome |-> "ok", target_iso |-> "fr"]}
    \cup {[provider |-> p, outcome |-> o, target_iso |-> "fr"] :
            p \in {"deepl", "google", "libretranslate"},
            o \in {"ok", "http_error", "exception", "empty", "blank_text"}}

\* doc holds the node of the call under key 1, run the translator
InitTranslate ==
    /\ doc \in {[k \in {1} |-> n] : n \in TranslateNodes}
    /\ run \in Backends
    /\ pipe = WriteMode
    /\ pc = "idle"
    /\ summary = NoSummary
    /\ graft = NoGraft
    /\ doc0 = doc
    /\ runs = 0
    /\ walks = <<>>

TranslateCall ==
    /\ pc = "idle"
    /\ LET r == translate_node_strings(doc[1], run)
       IN  /\ doc' = [doc EXCEPT ![1] = r.node]
           /\ summary' = [summary EXCEPT !.strings_translated = @ + r.count]
    /\ pc' = "translated"
    /\ UNCHANGED <<run, graft, doc0, runs, walks, pipe>>

NextTranslate == TranslateCall

SpecTranslate == InitTranslate /\ [][NextTranslate]_vars

\* ============================================================== properties
Values(f) == {f[x] : x \in DOMAIN f}

\* the non-null targets of a node's conditions and default
Targets(n) ==
    (Range([i \in 1..Len(NextConds(n)) |-> NextConds(n)[i].result])
     \cup {NextDefault(n)}) \ {Null}

\* every non-null result and default of every node names a node
NoDangling(d) == \A k \in DOMAIN d : Targets(d[k]) \subseteq DOMAIN d

\* the template branch as it was when the run started
TemplateWalk == walk_subgraph(doc0, run.english_start).order

\* the wired entries of the options other than the template's
Entries == {run.l2s[l] : l \in DOMAIN run.l2s \ {SOURCE_LANGUAGE_LABEL}}

\* no option's entry is the language page or a node of the template branch
Disjoint == Entries \cap (Range(TemplateWalk) \cup {run.page}) = {}

\* no terminal-tagged node of the template carries a next
TerminalOk ==
    \A k \in Range(TemplateWalk) : doc0[k].tid = "thanks" => ~doc0[k].hasNext

Grafted == graft.kind = "graft"

SameRouting(a, b) ==
    /\ a.hasNext = b.hasNext
    /\ a.conds = b.conds
    /\ a.dflt = b.dflt

\* C1: when process_languages has returned on a document without dangling
\* references, every non-null result and default of every node names a node of
\* the document; stated here for the runs in which no option's entry lies on
\* the template branch or is the language page
C1_NoDanglingAfterRun ==
    (pc = "done" /\ NoDangling(doc0) /\ Disjoint) => NoDangling(doc)

\* C2: after a graft the shape signature computed from the branch entry
\* equals the template's signature (as computed from the template entry when
\* the run started); stated here for the templates whose terminal-tagged nodes
\* carry no next
C2_ShapeEqualsTemplate ==
    (Grafted /\ TerminalOk)
        => compute_shape_signature(doc, graft.entry) = run.template_shape

\* C3: a graft replaces the entry in place: its key is still in the document,
\* the node under it has the id field it had, and every reference to it held
\* by a node outside the grafted branch (the language page's condition among
\* them) is still there and names a node
C3_EntryReplacedInPlace ==
    Grafted =>
        /\ graft.entry \in DOMAIN doc
        /\ doc[graft.entry].id = graft.pre[graft.entry].id
        /\ \A k \in DOMAIN graft.pre \ Values(graft.mapping) :
              /\ k \in DOMAIN doc
              /\ \A i \in 1..Len(NextConds(graft.pre[k])) :
                    NextConds(graft.pre[k])[i].result = graft.entry
                        => /\ i <= Len(NextConds(doc[k]))
                           /\ NextConds(doc[k])[i].result = graft.entry
              /\ NextDefault(graft.pre[k]) = graft.entry
                    => NextDefault(doc[k]) = graft.entry

\* a graft whose entry is referenced by the language page and by another node
\* outside the grafted branch, and whose content the graft has replaced
C3_Witness ==
    /\ Grafted
    /\ run.page \notin Values(graft.mapping)
    /\ graft.entry \in Targets(graft.pre[run.page])
    /\ \E k \in DOMAIN graft.pre \ (Values(graft.mapping) \cup {run.page}) :
          graft.entry \in Targets(graft.pre[k])
    /\ doc[graft.entry].tid # graft.pre[graft.entry].tid
    /\ Len(graft.order) >= 2

\* C4: process_languages never changes the language page's routing: its
\* conditions and default are those it had when the run started
C4_PageRoutingUnchanged ==
    pc \in {"loop", "done"} => SameRouting(doc[run.page], doc0[run.page])

\* C5: after a graft every node of the corrected mapping's values that is
\* tagged "thanks" has next null
C5_TerminalNextNull ==
    Grafted =>
        \A v \in Values(graft.mapping) \cap DOMAIN doc :
            doc[v].tid = "thanks" => ~doc[v].hasNext

\* a graft of a template whose terminal node carried a default, onto an entry
\* that carried a next: the new terminal node has none
C5_Witness ==
    /\ Grafted
    /\ graft.pre[graft.entry].hasNext
    /\ \E o \in DOMAIN graft.mapping :
          /\ graft.pre[o].tid = "thanks"
          /\ NextDefault(graft.pre[o]) # Null
          /\ graft.mapping[o] \in DOMAIN doc
          /\ doc[graft.mapping[o]].tid = "thanks"
          /\ graft.mapping[o] # graft.entry

\* C6: clone_subgraph leaves every node the document had unchanged and adds
\* only the keys of the returned mapping's values: without them the document
\* is the one before the call
C6_CloneAddsOnly ==
    \A i \in 1..Len(walks) :
        walks[i].kind = "clone" =>
            LET r == walks[i]
            IN  /\ DOMAIN r.post = DOMAIN r.pre \cup Values(r.mapping)
                /\ Values(r.mapping) \cap DOMAIN r.pre = {}
                /\ [k \in DOMAIN r.post \ Values(r.mapping) |-> r.post[k]] = r.pre

\* a clone of a branch of two or more nodes whose entry is referenced from
\* inside the branch, so that the copies carry rewritten references
C6_Witness ==
    \E i \in 1..Len(walks) :
        /\ walks[i].kind = "clone"
        /\ ~walks[i].err
        /\ Len(walks[i].order) >= 2
        /\ \E o \in Range(walks[i].order) :
              /\ walks[i].start \in Targets(walks[i].pre[o])
              /\ walks[i].mapping[walks[i].start]
                     \in Targets(walks[i].post[walks[i].mapping[o]])

RECURSIVE Reach(_, _)
Reach(d, S) ==
    LET S2 == S \cup {t \in UNION {Targets(d[k]) : k \in S} : t \in DOMAIN d}
    IN  IF S2 = S THEN S ELSE Reach(d, S2)

\* the out-edges of a node in the order they are followed
Edges(n) ==
    [i \in 1..Len(NextConds(n)) |-> NextConds(n)[i].result] \o <<NextDefault(n)>>

\* a target that starts no new visit once the nodes of prefix are visited
Closed(d, prefix, t) == t = Null \/ t \notin DOMAIN d \/ t \in prefix

\* order is the depth-first pre-order from start: it begins with start, lists
\* exactly the reachable existing nodes, each once; every later node v is
\* entered from the last listed node p that has an edge to v, through p's
\* first edge not yet closed, and every node listed between p and v was
\* exhausted before v was entered
PreOrder(d, start, order) ==
    /\ start \in DOMAIN d => (Len(order) >= 1 /\ order[1] = start)
    /\ start \notin DOMAIN d => order = <<>>
    /\ \A i, j \in 1..Len(order) : order[i] = order[j] => i = j
    /\ Range(order) = Reach(d, {start} \cap DOMAIN d)
    /\ \A i \in 2..Len(order) :
          LET v       == order[i]
              prefix  == {order[j] : j \in 1..(i - 1)}
              parents == {j \in 1..(i - 1) : v \in Targets(d[order[j]])}
          IN  /\ parents # {}
              /\ LET p     == SetMax(parents)
                     es    == Edges(d[order[p]])
                     first == SetMin({e \in 1..Len(es) : es[e] = v})
                 IN  /\ \A e \in 1..(first - 1) : Closed(d, prefix, es[e])
                     /\ \A k \in (p + 1)..(i - 1) :
                           \A t \in Targets(d[order[k]]) : Closed(d, prefix, t)

\* C8: walk_subgraph returns the depth-first pre-order of the existing nodes
\* reachable from start, conditions in list order and then the default, each
\* node once; visited is the set of the order's elements; null and absent
\* targets are not listed
C8_WalkIsPreOrder ==
    \A i \in 1..Len(walks) :
        walks[i].kind = "walk" =>
            /\ PreOrder(walks[i].pre, walks[i].start, walks[i].order)
            /\ walks[i].visited = Range(walks[i].order)

\* a walk of three nodes from a start whose condition and default lead to two
\* different nodes, one of which leads back to the start
C8_Witness ==
    \E i \in 1..Len(walks) :
        LET r == walks[i]
        IN  /\ r.kind = "walk"
            /\ Len(r.order) = 3
            /\ Len(NextConds(r.pre[r.start])) = 1
            /\ r.order[2] = NextConds(r.pre[r.start])[1].result
            /\ r.order[3] = NextDefault(r.pre[r.start])
            /\ \E k \in {r.order[2], r.order[3]} : r.start \in Targets(r.pre[k])

\* the template entry's default is the entry itself
SelfLoop == NextDefault(graft.pre[run.english_start]) = run.english_start

\* C9: walk, clone, graft and crumb propagation end on documents with cycles,
\* re-convergence and self-references: the walk lists each node at most once,
\* the clone creates one node per listed node, the graft leaves at most one
\* new node per template node, every propagation loop empties its stack; for
\* a template entry whose default is the entry itself the walk lists the entry
\* once, and when the entry is the whole template the clone creates one node
C9_Terminates ==
    Grafted =>
        /\ \A i, j \in 1..Len(graft.order) :
              graft.order[i] = graft.order[j] => i = j
        /\ Range(graft.order) \subseteq DOMAIN graft.pre
        /\ graft.cloned = Len(graft.order)
        /\ Cardinality(DOMAIN doc) - Cardinality(DOMAIN graft.pre)
              <= Len(graft.order)
        /\ graft.ended
        /\ SelfLoop =>
              Cardinality({i \in 1..Len(graft.order) :
                              graft.order[i] = run.english_start}) = 1
        /\ (SelfLoop /\ Targets(graft.pre[run.english_start]) = {run.english_start})
              => graft.cloned = 1

\* a graft of a template that is one sub-choice page whose condition and
\* default both name the page itself: walk, clone and propagation all met the
\* self-reference
C9_Witness ==
    /\ Grafted
    /\ SelfLoop
    /\ graft.pre[run.english_start].tid = "visitreason"
    /\ Targets(graft.pre[run.english_start]) = {run.english_start}
    /\ Len(NextConds(graft.pre[run.english_start])) = 1
    /\ graft.order = <<run.english_start>>
    /\ doc[graft.entry].tid = "visitreason"

\* C10: grafting is shape-idempotent: after the graft of the first run and
\* after the graft of the second run on the document the first one left, the
\* branch's shape signature equals the template's; stated here for the
\* templates whose terminal-tagged nodes carry no next
C10_ShapeIdempotent ==
    (Grafted /\ runs \in {1, 2} /\ TerminalOk)
        => compute_shape_signature(doc, graft.entry) = run.template_shape

\* C11: persistence is fail-closed: the workflow is PUT at most once, and only
\* in write mode outside the self-test, after validate_inner has run on the
\* document as the run left it and returned no error; a run that ended on a
\* validation error or on an exception of an earlier step has made no PUT
C11_FailClosedPut ==
    /\ pipe.puts <= 1
    /\ pipe.puts = 1 =>
          /\ ~pipe.dry_run /\ ~pipe.self_test
          /\ pipe.validated /\ pipe.errors = {}
          /\ pipe.validated_doc = doc
          /\ validate_inner(doc, pipe.starting_node_id).errors = {}
    /\ pc = "aborted" => pipe.puts = 0
    /\ (pc = "error" /\ ~pipe.validated) => pipe.puts = 0

\* a run that grafted a branch, passed the validator and made its PUT
C11_Witness ==
    /\ pc = "finished"
    /\ pipe.puts = 1
    /\ Grafted
    /\ doc # doc0

\* the document with every id field set to its key
IdsAsKeys(d) == [k \in DOMAIN d |-> [d[k] EXCEPT !.id = k]]

\* C12: validate_inner reports an error for every non-null condition result
\* and default that names no node and for every node not tagged "thanks"
\* whose next or next.default is null; it reports no error for a document
\* free of these defects whose starting_node_id resolves; a node whose key
\* differs from its id gets a warning and changes nothing in the errors
C12_ValidatorFindings ==
    pc = "checked" =>
        LET E == pipe.errors
            dangling(t) == t # Null /\ t \notin DOMAIN doc
            defective(k) ==
                \/ \E i \in 1..Len(NextConds(doc[k])) :
                      dangling(NextConds(doc[k])[i].result)
                \/ dangling(NextDefault(doc[k]))
                \/ doc[k].tid # "thanks" /\ (~doc[k].hasNext \/ doc[k].dflt = Null)
        IN  /\ \A k \in DOMAIN doc :
                  /\ \A i \in 1..Len(NextConds(doc[k])) :
                        dangling(NextConds(doc[k])[i].result) =>
                            Finding("cond", k, NextConds(doc[k])[i].result) \in E
                  /\ dangling(NextDefault(doc[k])) =>
                        Finding("default", k, NextDefault(doc[k])) \in E
                  /\ (doc[k].tid # "thanks"
                      /\ (~doc[k].hasNext \/ doc[k].dflt = Null)) =>
                        Finding("nodefault", k, Null) \in E
                  /\ doc[k].id # k => Finding("mismatch", k, doc[k].id) \in pipe.warnings
            /\ ((\A k \in DOMAIN doc : ~defective(k))
                /\ (pipe.starting_node_id = Null
                    \/ pipe.starting_node_id \in DOMAIN doc)) => E = {}
            /\ \A e \in E : e.kind # "mismatch"
            /\ E = validate_inner(IdsAsKeys(doc), pipe.starting_node_id).errors

\* a validated document with a dangling default, a page without default and
\* a node whose id differs from its key
C12_Witness ==
    /\ pc = "checked"
    /\ \E k \in DOMAIN doc : NextDefault(doc[k]) = Absent
    /\ \E k \in DOMAIN doc : doc[k].tid # "thanks" /\ NextDefault(doc[k]) = Null
    /\ \E k \in DOMAIN doc : doc[k].id # k
    /\ pipe.errors # {}
    /\ pipe.warnings # {}

\* the warnings the current run has recorded for one option
WarningsFor(label) ==
    {i \in 1..Len(summary.warnings) : summary.warnings[i].label = label}

\* C13: an option other than the template's that has no wired entry (no start
\* id, a null result, a start id naming no node) or whose label maps to no
\* locale code is skipped: the step changes and adds no node, leaves the
\* choice page as it was, appends exactly one warning, and the run goes on
C13_SkipLeavesDocument ==
    graft.kind \in {"skip", "iso"} =>
        /\ doc = graft.pre
        /\ doc[run.page] = graft.pre[run.page]
        /\ Cardinality(WarningsFor(graft.label)) = 1
        /\ pc \in {"loop", "done"}

\* the fatal inputs: no choice page, the template's label not among the
\* page's options, or no condition of the template's option with a result
\* and no page default
NoChoicePage(d) == \A k \in DOMAIN d : d[k].dn # "language"

SourceLabelAbsent(d) ==
    \A k \in DOMAIN d :
        d[k].dn = "language" =>
            \A i \in 1..Len(d[k].reasons) :
                d[k].reasons[i].title # SOURCE_LANGUAGE_LABEL.base

NoTemplateEntry(d) ==
    \A k \in DOMAIN d :
        d[k].dn = "language" =>
            /\ d[k].dflt = Null
            /\ \A i \in 1..Len(d[k].conds), j \in 1..Len(d[k].reasons) :
                  (/\ d[k].reasons[j].title = SOURCE_LANGUAGE_LABEL.base
                   /\ d[k].conds[i].rval = d[k].reasons[j].id)
                      => d[k].conds[i].result = Null

FatalInput(d) == NoChoicePage(d) \/ SourceLabelAbsent(d) \/ NoTemplateEntry(d)

\* C14: when the choice page is not found, the template's label is not among
\* its options, or the template has no discoverable entry, the run ends with
\* an error: no node has been modified or created, the validator has not run
\* and nothing has been persisted
C14_FatalBeforeAnyChange ==
    (runs >= 1 /\ FatalInput(doc0)) =>
        /\ pc = "error"
        /\ doc = doc0
        /\ graft = NoGraft
        /\ ~pipe.validated
        /\ pipe.puts = 0

\* a run in write mode ended by a template without entry
C14_Witness ==
    /\ pc = "error"
    /\ runs = 1
    /\ ~NoChoicePage(doc0) /\ ~SourceLabelAbsent(doc0) /\ NoTemplateEntry(doc0)
    /\ ~pipe.dry_run /\ ~pipe.self_test

\* C15: after one graft of a template whose walk has n nodes onto an entry X
\* the corrected mapping has n entries and maps the template entry to X, the
\* cloned entry's id is no key of the document, the document has n-1 more
\* nodes than before the graft, and the walk from X visits exactly n nodes:
\* the mapping's values
C15_GraftCounts ==
    Grafted =>
        LET n == Len(graft.order)
            fromX == walk_subgraph(doc, graft.entry).order
        IN  /\ Cardinality(DOMAIN graft.mapping) = n
            /\ graft.mapping[run.english_start] = graft.entry
            /\ graft.new_start \notin DOMAIN doc
            /\ Cardinality(DOMAIN doc) = Cardinality(DOMAIN graft.pre) + n - 1
            /\ Len(fromX) = n
            /\ Range(fromX) = Values(graft.mapping)

\* the nodes of the grafted branch: the corrected mapping's values
Branch == Values(graft.mapping) \cap DOMAIN doc

\* C16: after the crumb propagation of a graft for the selection label L the
\* entry's crumb is L and every sub-choice node ("visitreason") of the
\* grafted branch has crumb L, whatever the order of processing and whatever
\* edges, back-edges included, the branch has
C16_SubChoiceCrumbIsLabel ==
    Grafted =>
        /\ doc[graft.entry].crumb = graft.label
        /\ \A k \in Branch :
              doc[k].tid = "visitreason" => doc[k].crumb = graft.label

\* the template node a node of the grafted branch was cloned from; the clone
\* carries that node's crumb when propagation starts
TemplateOf(k) == CHOOSE o \in DOMAIN graft.mapping : graft.mapping[o] = k

\* C17: crumb propagation never overwrites a crumb a node already carries:
\* every node of the grafted branch that is neither the entry nor a
\* sub-choice node and has a non-empty crumb when propagation starts has the
\* same crumb when it ends, direct targets of sub-choice conditions included
C17_ExplicitCrumbKept ==
    Grafted =>
        \A k \in Branch \ {graft.entry} :
            (/\ doc[k].tid # "visitreason"
             /\ graft.pre[TemplateOf(k)].crumb # NoCrumb)
                => doc[k].crumb = graft.pre[TemplateOf(k)].crumb

\* the sub-choice nodes of the grafted branch
SubChoices == {s \in Branch : doc[s].tid = "visitreason"}

\* a node of the branch that carried no crumb when propagation started and is
\* neither the entry nor a sub-choice node
CrumbLess(k) ==
    /\ k # graft.entry
    /\ doc[k].tid # "visitreason"
    /\ graft.pre[TemplateOf(k)].crumb = NoCrumb

CondTarget(s, i) == NextConds(doc[s])[i].result

\* the existing targets of the conditions of s, and of its edges other than
\* condition i
CondTargets(s) ==
    {CondTarget(s, j) : j \in 1..Len(NextConds(doc[s]))} \cap DOMAIN doc

OtherTargets(s, i) ==
    ({CondTarget(s, j) : j \in (1..Len(NextConds(doc[s]))) \ {i}}
     \cup {NextDefault(doc[s])}) \cap DOMAIN doc

\* k is reached from s through the target of condition i and through no
\* other edge of s; through the default of s and through no condition of s
OnlyViaCond(s, i, k) ==
    /\ CondTarget(s, i) \in DOMAIN doc
    /\ k \in Reach(doc, {CondTarget(s, i)})
    /\ k \notin Reach(doc, OtherTargets(s, i))

OnlyViaDefault(s, k) ==
    /\ NextDefault(doc[s]) \in DOMAIN doc
    /\ k \in Reach(doc, {NextDefault(doc[s])})
    /\ k \notin Reach(doc, CondTargets(s))

\* the title of the option of condition i of s, as the clone carried it when
\* propagation ran
OptionTitle(s, i) ==
    TitleOf(graft.pre[TemplateOf(s)], NextConds(doc[s])[i].rval, graft.label)

\* C18: for a sub-choice node S of a branch grafted for the label L, every
\* crumb-less node of the branch reachable only through the target of S's
\* condition for the option titled T has crumb T, and every crumb-less node
\* reachable only through S's default has crumb L; stated here for the
\* targets behind which no further sub-choice node lies
C18_CrumbPerOption ==
    Grafted =>
        \A s \in SubChoices : \A k \in Branch :
            /\ \A i \in 1..Len(NextConds(doc[s])) :
                  (/\ CrumbLess(k)
                   /\ OnlyViaCond(s, i, k)
                   /\ Reach(doc, {CondTarget(s, i)}) \cap SubChoices = {})
                      => doc[k].crumb = OptionTitle(s, i)
            /\ (/\ CrumbLess(k)
                /\ OnlyViaDefault(s, k)
                /\ Reach(doc, {NextDefault(doc[s])}) \cap SubChoices = {})
                  => doc[k].crumb = graft.label

\* the values stored under a key data_name or name anywhere in a JSON value,
\* in the order of the value's items
RECURSIVE NameValues(_)
NameValues(value) ==
    LET RECURSIVE Cat(_)
        Cat(i) ==
            IF i = 0 THEN <<>>
            ELSE Cat(i - 1)
                 \o (IF value.kind = "list" THEN NameValues(value.items[i])
                     ELSE IF value.items[i].k \in {"data_name", "name"}
                     THEN <<value.items[i].v>>
                     ELSE NameValues(value.items[i].v))
    IN  IF value.kind \in {"dict", "list"} THEN Cat(Len(value.items)) ELSE <<>>

\* the keys on the way to some string of a JSON value
RECURSIVE KeysAbove(_)
KeysAbove(value) ==
    IF value.kind = "dict"
    THEN UNION {{value.items[i].k} \cup KeysAbove(value.items[i].v) :
                   i \in 1..Len(value.items)}
    ELSE IF value.kind = "list"
    THEN UNION {KeysAbove(value.items[i]) : i \in 1..Len(value.items)}
    ELSE {}

BackendFailed ==
    run.provider # "mock" /\ run.outcome \in {"http_error", "exception", "empty"}

\* C20: when the translation backend fails for a text field, the field's
\* value after translate_node_strings is its value before the call (no
\* exception leaves the call, the graft goes on with the same node ids and
\* next edges); stated here for the node a single call works on
C20_FailureLeavesText ==
    (pc = "translated" /\ BackendFailed) =>
        /\ doc[1] = doc0[1]
        /\ summary.strings_translated = 0

\* C21: for every node of the grafted branch other than the entry, each
\* condition result is the corrected mapping applied to the corresponding
\* condition result of the template node it mirrors (an edge to the template
\* entry becomes an edge to the pre-existing entry), and after the graft no
\* node of the document holds a result or default equal to the id of the
\* discarded cloned entry
C21_CondsThroughCorrectedMapping ==
    Grafted =>
        /\ \A g \in Branch \ {graft.entry} :
              LET t == graft.pre[TemplateOf(g)]
              IN  /\ Len(NextConds(doc[g])) = Len(NextConds(t))
                  /\ \A i \in 1..Len(NextConds(t)) :
                        NextConds(doc[g])[i].result
                            = Remap(graft.mapping, NextConds(t)[i].result)
        /\ \A k \in DOMAIN doc : graft.new_start \notin Targets(doc[k])

\* C22: after a graft, for every template node t of the walk that is not
\* terminal-tagged, the default of its grafted counterpart mapping[t] is
\* mapping[t.next.default] when the template default is non-null and is null
\* when the template default is null, whatever the pre-existing entry held
C22_DefaultsThroughCorrectedMapping ==
    Grafted =>
        \A t \in DOMAIN graft.mapping :
            LET tn == graft.pre[t]
                g  == graft.mapping[t]
            IN  tn.tid # "thanks" =>
                    /\ g \in DOMAIN doc
                    /\ NextDefault(doc[g]) = IF NextDefault(tn) # Null
                                             THEN Remap(graft.mapping, NextDefault(tn))
                                             ELSE Null

\* C23: the cycle guard of the graft makes no self-loop of its own: after a
\* graft a node of the branch defaults to itself only if the template node it
\* mirrors defaults to itself, and defaults to the branch entry only if the
\* template node it mirrors defaults to the template entry
C23_NoSelfLoopOfItsOwn ==
    Grafted =>
        \A g \in Branch :
            LET t == TemplateOf(g)
            IN  /\ NextDefault(doc[g]) = g => NextDefault(graft.pre[t]) = t
                /\ NextDefault(doc[g]) = graft.entry
                       => NextDefault(graft.pre[t]) = run.english_start

\* a graft of a template with a default back to its entry from another node
C23_Witness ==
    /\ Grafted
    /\ \E g \in Branch \ {graft.entry} : NextDefault(doc[g]) = graft.entry
    /\ \E g \in Branch : NextDefault(doc[g]) = g

\* the calls of clone_subgraph made so far
CloneCalls == {j \in 1..Len(walks) : walks[j].kind = "clone"}

\* C24: clone_subgraph gives the i-th node of the walk order (i from 0) the id
\* M + 1 + i, M the largest key of the whole document (0 if none): the ids
\* rise with the walk order, one per walked node, the mapping is injective
\* with the walked nodes as its domain, and no new id is a key the document
\* already had
C24_IdsAboveEveryKey ==
    \A j \in CloneCalls :
        LET w == walks[j]
            M == SetMax(DOMAIN w.pre \cup {0})
        IN  /\ DOMAIN w.mapping = Range(w.order)
            /\ \A i \in 1..Len(w.order) : w.mapping[w.order[i]] = M + 1 + (i - 1)
            /\ \A a, b \in 1..Len(w.order) :
                  a < b => w.mapping[w.order[a]] < w.mapping[w.order[b]]
            /\ \A o, p \in DOMAIN w.mapping : w.mapping[o] = w.mapping[p] => o = p
            /\ Values(w.mapping) \cap DOMAIN w.pre = {}
            /\ DOMAIN w.post = DOMAIN w.pre \cup Values(w.mapping)

\* a second clone call, made on the document the first one enlarged, of a
\* subgraph that leaves out some node of the document
C24_Witness ==
    /\ Len(walks) = 2
    /\ CloneCalls = {1, 2}
    /\ Len(walks[1].order) >= 2
    /\ Len(walks[2].order) >= 2
    /\ Range(walks[2].order) # DOMAIN walks[2].pre
    /\ SetMax(Range(walks[2].order)) < SetMax(DOMAIN walks[2].pre)

\* the clone of every walked node is the node with its id and its edges remapped
CloneContent(w) ==
    \A o \in Range(w.order) :
        LET old == w.pre[o]
            new == w.post[w.mapping[o]]
        IN  /\ new.id = w.mapping[o]
            /\ [new EXCEPT !.id = old.id, !.conds = old.conds,
                           !.dflt = old.dflt] = old
            /\ Len(new.conds) = Len(old.conds)
            /\ \A i \in 1..Len(old.conds) :
                  /\ [new.conds[i] EXCEPT !.result = old.conds[i].result]
                        = old.conds[i]
                  /\ new.conds[i].result = Remap(w.mapping, old.conds[i].result)
            /\ new.dflt = Remap(w.mapping, old.dflt)

\* the shape signature from the cloned start is the one from the start
CloneShape(w) ==
    compute_shape_signature(w.post, w.mapping[w.start])
        = compute_shape_signature(w.pre, w.start)

\* no walked node names an id that the call is about to give to a clone
NoCapture(w) ==
    \A o \in Range(w.order) : Targets(w.pre[o]) \cap Values(w.mapping) = {}

\* C25: after clone_subgraph(doc, s) returns the mapping m, the node stored
\* under m[o] is, for every walked node o, the content of o with the id m[o]
\* and with every condition result and the default r replaced by m[r] when r
\* is in the domain of m and left as r otherwise, the conditions kept in
\* number and order; hence the shape signature from m[s] is the one from s
C25_CloneIsRemappedCopy ==
    \A j \in CloneCalls :
        ~walks[j].err => CloneContent(walks[j]) /\ CloneShape(walks[j])

\* C25, amended: the node stored under m[o] is the remapped copy of o for every
\* walked node o; the shape signature from m[s] is the one from s when no walked
\* node names an id that the call gives to a clone
C25_CloneKeepsShapeUnlessCaptured ==
    \A j \in CloneCalls :
        ~walks[j].err =>
            /\ CloneContent(walks[j])
            /\ NoCapture(walks[j]) => CloneShape(walks[j])

\* a clone of a subgraph with a condition and with an edge back to its start,
\* no walked node naming an id the call gives to a clone
C25_Witness ==
    \E j \in CloneCalls :
        LET w == walks[j]
        IN  /\ ~w.err
            /\ Len(w.order) >= 2
            /\ NoCapture(w)
            /\ \E o \in Range(w.order) : Len(NextConds(w.pre[o])) >= 1
            /\ \E o \in Range(w.order) : w.start \in Targets(w.pre[o])

\* the options of the choice page other than the template's own, with their
\* choice ids as the page gives them
OtherOptions == {i \in 1..Len(doc0[run.page].reasons) : ChoiceLabels(doc0[run.page])[i] # SOURCE_LANGUAGE_LABEL}

\* the positions of the routing conditions of option i, in list order
OptionConds(i) == {c \in 1..Len(NextConds(doc0[run.page])) : NextConds(doc0[run.page])[c].rval = doc0[run.page].reasons[i].id}

GraftSteps(d, label, failed) ==
    LET c       == clone_subgraph(d, run.english_start)
        d2      == Splice(c.doc, run.l2s[label], c.new_start)
        mapping == CorrectedMapping(c.mapping, run.l2s[label], c.new_start)
        adj     == adjust_cloned_branch_for_end_thanks_and_crumbs(d2, mapping, c.order, run.english_start, label)
    IN  TranslateBranch(adj.doc, mapping, c.order, iso_from_label(label), failed, 1)

\* C27: process_languages handles the options one at a time in the order of
\* the choice page's options; for a grafted branch the steps are clone and
\* splice, then default and terminal correction and crumb propagation, then
\* the translation of exactly the nodes of the corrected mapping's values,
\* then the comparison of the branch's shape signature with the template
\* signature computed before the first graft, where a mismatch adds a warning
\* and does not stop the run
C27_StepsInOrder ==
    [][(pc = "loop" /\ pc' # "error") =>
          /\ run'.idx = run.idx + 1
          /\ graft'.label = run.labels[run.idx]
          /\ graft'.pre = doc
          /\ run'.template_shape = compute_shape_signature(doc0, run.english_start)
          /\ graft'.kind = "graft" =>
                /\ doc' = GraftSteps(doc, graft'.label, graft'.failed)
                /\ \A k \in DOMAIN doc' \ Values(graft'.mapping) :
                      k \in DOMAIN doc /\ doc'[k].lang = doc[k].lang
                /\ graft'.failed = {} =>
                      \A k \in Values(graft'.mapping) \cap DOMAIN doc' :
                          doc'[k].lang = iso_from_label(graft'.label)
                /\ compute_shape_signature(doc', graft'.entry) # run.template_shape
                      => summary'.warnings = Append(summary.warnings, [kind |-> "topology", label |-> graft'.label])
                /\ pc' \in {"loop", "done"}
          /\ graft'.kind # "graft" => doc' = doc]_vars

\* C28: process_languages leaves the template branch untouched: every node
\* reachable from the template entry before the run is present afterwards
\* with the content it had, and the template's shape signature is the same
\* before and after, for every wiring of the other options
C28_TemplateUntouched ==
    pc \in {"loop", "done"} =>
        /\ \A k \in Range(TemplateWalk) : k \in DOMAIN doc /\ doc[k] = doc0[k]
        /\ compute_shape_signature(doc, run.english_start)
              = compute_shape_signature(doc0, run.english_start)

\* the wired entries of the branches the run grafts: the entries of the options
\* other than the template's own that have a locale code
GraftEntries == {run.l2s[l] : l \in {x \in DOMAIN run.l2s \ {SOURCE_LANGUAGE_LABEL} : iso_from_label(x) # ""}}

\* C29: over a whole run on a document without dangling references no
\* pre-existing node is deleted and the only pre-existing nodes whose content
\* changes are the wired entries of the grafted branches, so the old
\* downstream nodes of a replaced branch stay in the document as they were
C29_OnlyEntriesChange ==
    (pc \in {"loop", "done"} /\ NoDangling(doc0)) =>
        \A k \in DOMAIN doc0 :
            /\ k \in DOMAIN doc
            /\ doc[k] # doc0[k] => k \in GraftEntries

\* a run on a document without dangling references that replaced an entry
\* which had a downstream node: the node is still there, as it was, and the
\* entry leads to it no more
C29_Witness ==
    /\ pc = "done"
    /\ NoDangling(doc0)
    /\ \E e \in GraftEntries \cap DOMAIN doc0 :
          /\ doc[e] # doc0[e]
          /\ \E k \in Targets(doc0[e]) \ GraftEntries :
                /\ k \in DOMAIN doc
                /\ doc[k] = doc0[k]
                /\ k \notin Targets(doc[e])

\* C30: key/id consistency is an invariant of the engine: the documents start
\* with every node's id field equal to its key, and after any sequence of
\* clones and grafts every node of the document has an id field equal to its
\* key, so that no two keys hold the same id
C30_IdEqualsKey ==
    /\ \A k \in DOMAIN doc : doc[k].id = k
    /\ \A k, l \in DOMAIN doc : doc[k].id = doc[l].id => k = l

\* the end of a second run whose last graft added nodes to the document the
\* first run had already enlarged
C30_Witness ==
    /\ pc = "done"
    /\ runs = 2
    /\ Grafted
    /\ graft.entry \in DOMAIN doc
    /\ Cardinality(DOMAIN doc) > Cardinality(DOMAIN doc0)
    /\ Cardinality(DOMAIN doc0) > MaxNode

====
